---- MODULE Spec2Model ----
(***************************************************************************)
(* EventBatcher (core/batcher.ts): the client-side buffer, its flush       *)
(* triggers, the two transports, the spill store (in-memory failed list    *)
(* plus localStorage key "obs_failed_batches") and the retry sweep.        *)
(*                                                                         *)
(* The batcher runs on a single-threaded event loop.  A handler runs to    *)
(* its first pending await without interruption, so every action below is  *)
(* one such run: a public call, an environment event, a timer callback or  *)
(* the continuation that follows a transport result.                       *)
(*                                                                         *)
(* Event records are numbered 1, 2, ... in the order they are added.       *)
(* Batch identifiers (generateEventId) are modelled as fresh numbers.      *)
(* The callbacks onSuccess / onError are observers that return normally.   *)
(*                                                                         *)
(* A handler is an operator from the program state (a record) to the       *)
(* program state; the record's field `trace` lists, in order, the          *)
(* transport calls, callbacks and timers the run has made.                 *)
(*                                                                         *)
(* Two more components share the page with the batcher and have their own  *)
(* variables, handlers and specifications: the FingerprintManager          *)
(* (utils/fingerprint.ts: visitor identifier, session identifier kept in   *)
(* sessionStorage) and the Observability instance (index.ts: the tracker   *)
(* queue, the collection interval, the DOM listeners), which owns a        *)
(* batcher.  A specification of one component leaves the variables of the  *)
(* others as they are after construction.                                  *)
(***************************************************************************)
EXTENDS Integers, Sequences, FiniteSets, TLC

\* ---------------------------------------------------------------- bounds
MaxEvents == 2        \* records added during one batcher lifetime
MaxBatchSize == 2     \* largest configured batchSize explored
MaxAddEvents == 2     \* longest array handed to addEvents
MaxSweeps == 1        \* retry sweeps awaiting a transport result at once
MaxLegacy == 3        \* batches an earlier page load left in localStorage
MaxHalfHours == 2     \* clock advances of about SESSION_TIMEOUT since the page opened
MaxPendingInit == 1   \* initialize() calls awaiting the fingerprint agent at once
MaxOverlap == 2       \* retry sweeps in progress at once where sweeps may overlap

\* ------------------------------------------------------ program constants
DefaultBatchSize == 50 \* config.batchSize || 50
SpillCap == 100       \* existingBatches.slice(-100)
BackoffCap == 10      \* Math.min(this.failedBatches.length, 10)
RetryDelay == 1000    \* config.retryDelay || 1000

VARIABLES
  batchSize,      \* config.batchSize
  eventBuffer,    \* this.eventBuffer
  flushTimer,     \* this.flushTimer is set (the interval is running)
  isOnline,       \* this.isOnline
  failedBatches,  \* this.failedBatches
  retryTimer,     \* this.retryTimer names a timeout that is still pending
  pendingRetry,   \* number of retry timeouts the runtime still holds
  stored,         \* localStorage["obs_failed_batches"]
  inFlight,       \* flush() calls suspended at `await this.sendBatch(...)`
  sweeps,         \* retryFailedBatches() calls suspended inside their loop
  added,          \* history: number of records handed to addEvent/addEvents
  drained,        \* history: how many batches flush() has put each record in
  accepted,       \* history: how often each record was accepted by a transport
  \* FingerprintManager (utils/fingerprint.ts) and its environment
  fpPromise,        \* this.fpPromise is set
  visitorId,        \* this.visitorId ("" for null)
  sessionId,        \* this.sessionId (<<>> for null)
  sessionStartTime, \* this.sessionStartTime (0 for null)
  sessionStorage,   \* sessionStorage of the tab: key -> value (<<>> for no item)
  now,              \* Date.now()
  pendingInit,      \* initialize() calls suspended at their awaits
  lastCall,         \* the last call of the manager's API and how it ended
  lastActivity,     \* history: when the session was created or last refreshed
  \* Observability (index.ts) and its EventTracker
  initialized,      \* this.initialized
  eventQueue,       \* this.eventTracker.eventQueue
  collecting,       \* the interval of startEventCollection is running
  listening,        \* the DOM listeners of setupEventListeners are registered
  tracked,          \* history: number of events the tracker has produced
  destroyedAt       \* history: `tracked` when destroy() was called, -1 before

batcherVars == <<batchSize, eventBuffer, flushTimer, isOnline, failedBatches,
                 retryTimer, pendingRetry, stored, inFlight, sweeps, added,
                 drained, accepted>>

fingerprintVars == <<fpPromise, visitorId, sessionId, sessionStartTime,
                     sessionStorage, now, pendingInit, lastCall, lastActivity>>

observabilityVars == <<initialized, eventQueue, collecting, listening, tracked,
                       destroyedAt>>

vars == <<batcherVars, fingerprintVars, observabilityVars>>

\* The program state as one record, so that a handler is a function on it;
\* every handler starts with an empty trace and no exception under way.
S ==
  [batchSize |-> batchSize, eventBuffer |-> eventBuffer,
   flushTimer |-> flushTimer, isOnline |-> isOnline, failedBatches |-> failedBatches,
   retryTimer |-> retryTimer, pendingRetry |-> pendingRetry, stored |-> stored,
   inFlight |-> inFlight, sweeps |-> sweeps, added |-> added,
   drained |-> drained, accepted |-> accepted, trace |-> <<>>, threw |-> FALSE]

SetBatcher(t) ==
  /\ batchSize' = t.batchSize
  /\ eventBuffer' = t.eventBuffer
  /\ flushTimer' = t.flushTimer
  /\ isOnline' = t.isOnline
  /\ failedBatches' = t.failedBatches
  /\ retryTimer' = t.retryTimer
  /\ pendingRetry' = t.pendingRetry
  /\ stored' = t.stored
  /\ inFlight' = t.inFlight
  /\ sweeps' = t.sweeps
  /\ added' = t.added
  /\ drained' = t.drained
  /\ accepted' = t.accepted

\* A handler of the batcher ran and ended in t.
Set(t) == SetBatcher(t) /\ UNCHANGED <<fingerprintVars, observabilityVars>>

\* ------------------------------------------------------------- utilities
Min(a, b) == IF a < b THEN a ELSE b

Range(q) == {q[i] : i \in 1..Len(q)}

\* Array.prototype.slice(-n): the last n elements.
SliceLast(q, n) ==
  IF Len(q) <= n THEN q ELSE SubSeq(q, Len(q) - n + 1, Len(q))

\* [a..b] as a sequence.
Interval(a, b) == [i \in 1..(b - a + 1) |-> a + i - 1]

\* ------------------------------------------------------------ data model
EventBatch(id, events) == [batch_id |-> id, events |-> events]

\* JSON.stringify of one batch: its fields in declaration order.
JSONstringify(batch) == <<batch.batch_id, batch.events>>

\* JSON.parse of one serialized batch.
JSONparse(text) == [batch_id |-> text[1], events |-> text[2]]

\* JSON.stringify / JSON.parse of the array kept in localStorage.
StringifyAll(batches) == [i \in 1..Len(batches) |-> JSONstringify(batches[i])]
ParseAll(texts) == [i \in 1..Len(texts) |-> JSONparse(texts[i])]

NoItem == [present |-> FALSE, value |-> <<>>]
Item(value) == [present |-> TRUE, value |-> value]

\* One observable effect of a handler run: a transport call (with the payload
\* it carries), a callback (with the records it is given), or setTimeout.
Call(name, payload, events, info, ms) ==
  [call |-> name, payload |-> payload, events |-> events, info |-> info, ms |-> ms]

SendBeaconCall(payload, sent) ==
  Call("sendBeacon", payload, <<>>, IF sent THEN "true" ELSE "false", 0)
FetchCall(payload) == Call("fetch", payload, <<>>, "", 0)
OnSuccessCall(events) == Call("onSuccess", <<>>, events, "", 0)
OnErrorCall(error, events) == Call("onError", <<>>, events, error, 0)
SetTimeoutCall(ms) == Call("setTimeout", <<>>, <<>>, "", ms)

Emit(s, c) == [s EXCEPT !.trace = Append(@, c)]

\* Exceptions.  A statement throws: the statements after it are skipped until
\* a catch block takes the exception.  A promise nobody awaits (`this.flush()`
\* in addEvent, addEvents and destroy) keeps its rejection to itself.
Throw(s) == [s EXCEPT !.threw = TRUE]
Catch(s) == [s EXCEPT !.threw = FALSE]
NotAwaited(s) == [s EXCEPT !.threw = FALSE]

\* ---------------------------------------------------------- environment
\* navigator.sendBeacon in one urgent flush: missing, or returning true / false.
BeaconResults == {"unavailable", "true", "false"}

\* The result of one fetch: a 2xx response, a non-2xx response, or a rejection.
FetchResults == {"ok", "http", "network"}

\* The try block of one spill: it runs to its end and setItem stores the value
\* (TRUE), or one of its statements throws (FALSE): getItem, JSON.parse on
\* content that is not JSON, or setItem (quota).  setItem is the only statement
\* of the block that changes state, and it is the last one.
WriteResults == BOOLEAN

\* generateEventId(): an identifier no other call returns.  Every record is in
\* one buffer at a time, so the call site (1: flush, 2: storeFailedBatch) and the
\* first record of the batch being built (0 for a batch without records) name
\* the call.
generateEventId(site, events) ==
  2 * (IF Len(events) = 0 THEN 0 ELSE Head(events)) + site

\* flush() took these records out of the buffer and built a batch of them.
Drain(s, events) ==
  [s EXCEPT !.drained = [r \in DOMAIN @ |-> IF r \in Range(events) THEN @[r] + 1 ELSE @[r]]]

\* A transport accepted these records.
Accept(s, events) ==
  [s EXCEPT !.accepted = [r \in DOMAIN @ |-> IF r \in Range(events) THEN @[r] + 1 ELSE @[r]]]

\* ------------------------------------------------------------- handlers

\* Mutant of storeFailedBatch: `slice(0, 100)` for `slice(-100)`.
storeKeepsOldest(s, events, writeOk) ==
  LET batch == EventBatch(generateEventId(2, events), events)
      s1 == [s EXCEPT !.failedBatches = Append(@, batch)]
      existingBatches == IF s.stored.present THEN ParseAll(s.stored.value) ELSE <<>>
      all == Append(existingBatches, batch)
      trimmedBatches == SubSeq(all, 1, Min(Len(all), SpillCap))
  IN IF writeOk
       THEN [s1 EXCEPT !.stored = Item(StringifyAll(trimmedBatches))]
       ELSE s1

\* Mutant of storeFailedBatch: the push to the failed list is the last statement
\* of the try block, after setItem.
storeFailedBatchPushesLast(s, events, writeOk) ==
  LET batch == EventBatch(generateEventId(2, events), events)
      existingBatches == IF s.stored.present THEN ParseAll(s.stored.value) ELSE <<>>
      trimmedBatches == SliceLast(Append(existingBatches, batch), SpillCap)
  IN IF writeOk
       THEN [s EXCEPT !.stored = Item(StringifyAll(trimmedBatches)),
                      !.failedBatches = Append(@, batch)]
       ELSE s

\* Mutant of storeFailedBatch: the storage block has no try/catch.
storeFailedBatchUncaught(s, events, writeOk) ==
  LET batch == EventBatch(generateEventId(2, events), events)
      s1 == [s EXCEPT !.failedBatches = Append(@, batch)]
      existingBatches == IF s.stored.present THEN ParseAll(s.stored.value) ELSE <<>>
      trimmedBatches == SliceLast(Append(existingBatches, batch), SpillCap)
  IN IF writeOk
       THEN [s1 EXCEPT !.stored = Item(StringifyAll(trimmedBatches))]
       ELSE Throw(s1)

\* storeFailedBatch(events): the push, then the try block and its catch.
storeFailedBatch(s, events, writeOk) ==
  LET batch == EventBatch(generateEventId(2, events), events)
      s1 == [s EXCEPT !.failedBatches = Append(@, batch)]
      existingBatches == IF s.stored.present THEN ParseAll(s.stored.value) ELSE <<>>
      trimmedBatches == SliceLast(Append(existingBatches, batch), SpillCap)
      tried == IF writeOk
                 THEN [s1 EXCEPT !.stored = Item(StringifyAll(trimmedBatches))]
                 ELSE Throw(s1)
  IN IF tried.threw THEN Catch(tried) ELSE tried

\* Mutant of sendBatch: a sendBeacon that returns false is taken for a send.
sendBatchNoFallback(s, batch, useBeacon, beacon) ==
  LET payload == JSONstringify(batch)
      tryBeacon == useBeacon /\ beacon # "unavailable"
      sent == beacon = "true"
  IN IF tryBeacon
       THEN [st |-> Emit(s, SendBeaconCall(payload, sent)), awaitsFetch |-> FALSE]
       ELSE [st |-> Emit(s, FetchCall(payload)), awaitsFetch |-> TRUE]

\* sendBatch(batch, useBeacon) up to its await: the calls it makes, and whether
\* it is left waiting for the fetch response.
sendBatch(s, batch, useBeacon, beacon) ==
  LET payload == JSONstringify(batch)
      tryBeacon == useBeacon /\ beacon # "unavailable"
      sent == beacon = "true"
      s1 == IF tryBeacon THEN Emit(s, SendBeaconCall(payload, sent)) ELSE s
  IN IF tryBeacon /\ sent
       THEN [st |-> s1, awaitsFetch |-> FALSE]
       ELSE [st |-> Emit(s1, FetchCall(payload)), awaitsFetch |-> TRUE]

\* Mutant of flush: the online path copies the buffer and forgets
\* `this.eventBuffer = []`.
flushKeepsBuffer(s, useBeacon, beacon, writeOk) ==
  IF Len(s.eventBuffer) = 0 THEN s
  ELSE IF ~s.isOnline THEN
    LET s1 == storeFailedBatch(s, s.eventBuffer, writeOk)
    IN Drain([s1 EXCEPT !.eventBuffer = <<>>], s.eventBuffer)
  ELSE
    LET events == s.eventBuffer
        batch == EventBatch(generateEventId(1, events), events)
        r == sendBatch(Drain(s, events), batch, useBeacon, beacon)
    IN [r.st EXCEPT !.inFlight = @ \cup
          {[batch |-> batch, events |-> events,
            via |-> IF r.awaitsFetch THEN "fetch" ELSE "beacon"]}]

\* Mutant of flush: the `if (!this.isOnline)` branch is missing.
flushIgnoresOffline(s, useBeacon, beacon, writeOk) ==
  IF Len(s.eventBuffer) = 0 THEN s
  ELSE
    LET events == s.eventBuffer
        batch == EventBatch(generateEventId(1, events), events)
        s1 == Drain([s EXCEPT !.eventBuffer = <<>>], events)
        r == sendBatch(s1, batch, useBeacon, beacon)
    IN [r.st EXCEPT !.inFlight = @ \cup
          {[batch |-> batch, events |-> events,
            via |-> IF r.awaitsFetch THEN "fetch" ELSE "beacon"]}]

\* Mutant of flush: the `if (this.eventBuffer.length === 0) return` is missing.
flushSendsEmpty(s, useBeacon, beacon, writeOk) ==
  IF ~s.isOnline THEN
    LET s1 == storeFailedBatch(s, s.eventBuffer, writeOk)
    IN Drain([s1 EXCEPT !.eventBuffer = <<>>], s.eventBuffer)
  ELSE
    LET events == s.eventBuffer
        batch == EventBatch(generateEventId(1, events), events)
        s1 == Drain([s EXCEPT !.eventBuffer = <<>>], events)
        r == sendBatch(s1, batch, useBeacon, beacon)
    IN [r.st EXCEPT !.inFlight = @ \cup
          {[batch |-> batch, events |-> events,
            via |-> IF r.awaitsFetch THEN "fetch" ELSE "beacon"]}]

\* Mutant of flush: the buffer is sent only once it is full.
flushOnlyWhenFull(s, useBeacon, beacon, writeOk) ==
  IF Len(s.eventBuffer) < s.batchSize THEN s
  ELSE IF ~s.isOnline THEN
    LET s1 == storeFailedBatch(s, s.eventBuffer, writeOk)
    IN Drain([s1 EXCEPT !.eventBuffer = <<>>], s.eventBuffer)
  ELSE
    LET events == s.eventBuffer
        batch == EventBatch(generateEventId(1, events), events)
        s1 == Drain([s EXCEPT !.eventBuffer = <<>>], events)
        r == sendBatch(s1, batch, useBeacon, beacon)
    IN [r.st EXCEPT !.inFlight = @ \cup
          {[batch |-> batch, events |-> events,
            via |-> IF r.awaitsFetch THEN "fetch" ELSE "beacon"]}]

\* flush(useBeacon) up to `await this.sendBatch(batch, useBeacon)`
flush(s, useBeacon, beacon, writeOk) ==
  IF Len(s.eventBuffer) = 0 THEN s
  ELSE IF ~s.isOnline THEN
    LET s1 == storeFailedBatch(s, s.eventBuffer, writeOk)
    IN IF s1.threw THEN s1
       ELSE Drain([s1 EXCEPT !.eventBuffer = <<>>], s.eventBuffer)
  ELSE
    LET events == s.eventBuffer
        batch == EventBatch(generateEventId(1, events), events)
        s1 == Drain([s EXCEPT !.eventBuffer = <<>>], events)
        r == sendBatch(s1, batch, useBeacon, beacon)
    IN [r.st EXCEPT !.inFlight = @ \cup
          {[batch |-> batch, events |-> events,
            via |-> IF r.awaitsFetch THEN "fetch" ELSE "beacon"]}]

\* Mutant of flushSettled: the catch block reports the error and forgets
\* `this.storeFailedBatch(events)`.
flushSettledDropsBatch(s, f, result, writeOk) ==
  LET s1 == [s EXCEPT !.inFlight = @ \ {f}]
  IN IF result = "ok"
       THEN Emit(Accept(s1, f.batch.events), OnSuccessCall(f.events))
       ELSE Emit(s1, OnErrorCall(result, f.events))

\* Mutant of flushSettled: the spill is moved out of the catch block and runs
\* after a success too.
flushSettledSpillsAlways(s, f, result, writeOk) ==
  LET s1 == [s EXCEPT !.inFlight = @ \ {f}]
      s2 == IF result = "ok"
              THEN Emit(Accept(s1, f.batch.events), OnSuccessCall(f.events))
              ELSE Emit(s1, OnErrorCall(result, f.events))
  IN storeFailedBatch(s2, f.events, writeOk)

\* flush(useBeacon) after the await: sendBatch returned or threw.
\* A rejected fetch and a response that is not ok both make sendBatch throw
\* inside the try block; the catch block reports the error and spills.
flushSettled(s, f, result, writeOk) ==
  LET s1 == [s EXCEPT !.inFlight = @ \ {f}]
      sent == IF result = "ok" THEN Accept(s1, f.batch.events) ELSE Throw(s1)
  IN IF sent.threw
       THEN storeFailedBatch(Emit(Catch(sent), OnErrorCall(result, f.events)),
                             f.events, writeOk)
       ELSE Emit(sent, OnSuccessCall(f.events))

\* Mutant of addEvent: `unshift` for `push`.
addEventPrepends(s, event, writeOk) ==
  LET s1 == [s EXCEPT !.eventBuffer = <<event>> \o @, !.added = @ + 1]
  IN IF Len(s1.eventBuffer) >= s1.batchSize
       THEN flush(s1, FALSE, "unavailable", writeOk)
       ELSE s1

\* Mutant of addEvent: `>` for `>=` in the threshold test.
addEventOffByOne(s, event, writeOk) ==
  LET s1 == [s EXCEPT !.eventBuffer = Append(@, event), !.added = @ + 1]
  IN IF Len(s1.eventBuffer) > s1.batchSize
       THEN flush(s1, FALSE, "unavailable", writeOk)
       ELSE s1

\* addEvent(event)
addEvent(s, event, writeOk) ==
  LET s1 == [s EXCEPT !.eventBuffer = Append(@, event), !.added = @ + 1]
  IN IF Len(s1.eventBuffer) >= s1.batchSize
       THEN NotAwaited(flush(s1, FALSE, "unavailable", writeOk))
       ELSE s1

\* addEvents(events)
addEvents(s, events, writeOk) ==
  LET s1 == [s EXCEPT !.eventBuffer = @ \o events, !.added = @ + Len(events)]
  IN IF Len(s1.eventBuffer) >= s1.batchSize
       THEN NotAwaited(flush(s1, FALSE, "unavailable", writeOk))
       ELSE s1

\* forceFlush()
forceFlush(s, writeOk) == flush(s, FALSE, "unavailable", writeOk)

\* `if (this.retryTimer) clearTimeout(this.retryTimer)`: a pending timeout is
\* removed; for null, and for the handle of a timeout that has fired or was
\* cleared, nothing happens.
clearTimeout(s) ==
  IF s.retryTimer THEN [s EXCEPT !.pendingRetry = @ - 1, !.retryTimer = FALSE] ELSE s

\* Mutant of scheduleRetry: `clearTimeout(this.retryTimer)` is missing.
scheduleRetryNoClear(s) ==
  IF Len(s.failedBatches) > 0
    THEN LET delay == RetryDelay * Min(Len(s.failedBatches), BackoffCap)
         IN [Emit(s, SetTimeoutCall(delay)) EXCEPT !.retryTimer = TRUE,
                                                   !.pendingRetry = @ + 1]
    ELSE s

\* Mutant of scheduleRetry: the multiplier is not capped.
scheduleRetryUncapped(s) ==
  IF Len(s.failedBatches) > 0
    THEN LET s1 == clearTimeout(s)
             delay == RetryDelay * Len(s.failedBatches)
         IN [Emit(s1, SetTimeoutCall(delay)) EXCEPT !.retryTimer = TRUE,
                                                    !.pendingRetry = @ + 1]
    ELSE s

\* retryFailedBatches(), after its loop: schedule the next sweep.
scheduleRetry(s) ==
  IF Len(s.failedBatches) > 0
    THEN LET s1 == clearTimeout(s)
             delay == RetryDelay * Min(Len(s.failedBatches), BackoffCap)
         IN [Emit(s1, SetTimeoutCall(delay)) EXCEPT !.retryTimer = TRUE,
                                                    !.pendingRetry = @ + 1]
    ELSE s

\* A suspended retryFailedBatches(): the batch its loop is awaiting and the
\* batches of batchesToRetry the loop has still to visit.
Sweep(batch, rest) == [batch |-> batch, rest |-> rest]

Without(q, i) == SubSeq(q, 1, i - 1) \o SubSeq(q, i + 1, Len(q))

\* retryFailedBatches(), `for (const batch of batchesToRetry)` going on with the
\* batches `rest` in sweep i: up to `await this.sendBatch(batch)`, or past the loop.
sweepLoop(s, i, rest) ==
  IF Len(rest) = 0
    THEN scheduleRetry([s EXCEPT !.sweeps = Without(@, i)])
    ELSE LET r == sendBatch(s, Head(rest), FALSE, "unavailable")
         IN [r.st EXCEPT !.sweeps[i].batch = Head(rest), !.sweeps[i].rest = Tail(rest)]

\* Mutant of retryFailedBatches: the persisted batches are put in front of the
\* in-memory ones (`unshift` for `push`).
retryPersistedFirst(s) ==
  IF ~s.isOnline THEN s
  ELSE
    LET s1 == IF s.stored.present
                THEN [s EXCEPT !.failedBatches = ParseAll(s.stored.value) \o @,
                               !.stored = NoItem]
                ELSE s
    IN IF Len(s1.failedBatches) = 0 THEN s1
       ELSE LET batchesToRetry == s1.failedBatches
                s2 == [s1 EXCEPT !.failedBatches = <<>>,
                                 !.sweeps = Append(@, Sweep(Head(batchesToRetry), <<>>))]
            IN sweepLoop(s2, Len(s2.sweeps), batchesToRetry)

\* Mutant of retryFailedBatches: `localStorage.removeItem` is missing.
retryKeepsStore(s) ==
  IF ~s.isOnline THEN s
  ELSE
    LET s1 == IF s.stored.present
                THEN [s EXCEPT !.failedBatches = @ \o ParseAll(s.stored.value)]
                ELSE s
    IN IF Len(s1.failedBatches) = 0 THEN s1
       ELSE LET batchesToRetry == s1.failedBatches
                s2 == [s1 EXCEPT !.failedBatches = <<>>,
                                 !.sweeps = Append(@, Sweep(Head(batchesToRetry), <<>>))]
            IN sweepLoop(s2, Len(s2.sweeps), batchesToRetry)

\* Mutant of retryFailedBatches: the persisted batches are loaded newest first.
retryLoadsNewestFirst(s) ==
  IF ~s.isOnline THEN s
  ELSE
    LET loaded == ParseAll(s.stored.value)
        s1 == IF s.stored.present
                THEN [s EXCEPT !.failedBatches =
                                 @ \o [k \in 1..Len(loaded) |-> loaded[Len(loaded) + 1 - k]],
                               !.stored = NoItem]
                ELSE s
    IN IF Len(s1.failedBatches) = 0 THEN s1
       ELSE LET batchesToRetry == s1.failedBatches
                s2 == [s1 EXCEPT !.failedBatches = <<>>,
                                 !.sweeps = Append(@, Sweep(Head(batchesToRetry), <<>>))]
            IN sweepLoop(s2, Len(s2.sweeps), batchesToRetry)

\* Mutant of retryFailedBatches: the `if (!this.isOnline) return` is missing.
retryIgnoresOffline(s) ==
  LET s1 == IF s.stored.present
              THEN [s EXCEPT !.failedBatches = @ \o ParseAll(s.stored.value),
                             !.stored = NoItem]
              ELSE s
  IN IF Len(s1.failedBatches) = 0 THEN s1
     ELSE LET batchesToRetry == s1.failedBatches
              s2 == [s1 EXCEPT !.failedBatches = <<>>,
                               !.sweeps = Append(@, Sweep(Head(batchesToRetry), <<>>))]
          IN sweepLoop(s2, Len(s2.sweeps), batchesToRetry)

\* retryFailedBatches() up to its first await.
retryFailedBatches(s) ==
  IF ~s.isOnline THEN s
  ELSE
    LET s1 == IF s.stored.present
                THEN [s EXCEPT !.failedBatches = @ \o ParseAll(s.stored.value),
                               !.stored = NoItem]
                ELSE s
    IN IF Len(s1.failedBatches) = 0 THEN s1
       ELSE LET batchesToRetry == s1.failedBatches
                s2 == [s1 EXCEPT !.failedBatches = <<>>,
                                 !.sweeps = Append(@, Sweep(Head(batchesToRetry), <<>>))]
            IN sweepLoop(s2, Len(s2.sweeps), batchesToRetry)

\* Mutant of sweepSettled: a batch that fails in the sweep is given up.
sweepSettledGivesUp(s, i, result) ==
  LET w == s.sweeps[i]
      batch == w.batch
      s1 == IF result = "ok"
              THEN Emit(Accept(s, batch.events), OnSuccessCall(batch.events))
              ELSE Emit(s, OnErrorCall(result, batch.events))
  IN sweepLoop(s1, i, w.rest)

\* retryFailedBatches() after an await: sendBatch returned or threw for the
\* batch of sweep i; the loop goes on with the next batch.
sweepSettled(s, i, result) ==
  LET w == s.sweeps[i]
      batch == w.batch
      s1 == IF result = "ok"
              THEN Emit(Accept(s, batch.events), OnSuccessCall(batch.events))
              ELSE [Emit(s, OnErrorCall(result, batch.events))
                      EXCEPT !.failedBatches = Append(@, batch)]
  IN sweepLoop(s1, i, w.rest)

\* Mutant of destroy: `clearInterval(this.flushTimer)` is missing.
destroyKeepsInterval(s, beacon, writeOk) ==
  flush(clearTimeout(s), TRUE, beacon, writeOk)

\* destroy()
destroy(s, beacon, writeOk) ==
  LET s1 == [s EXCEPT !.flushTimer = FALSE]
      s2 == clearTimeout(s1)
  IN NotAwaited(flush(s2, TRUE, beacon, writeOk))

\* The continuation of a flush whose sendBatch returned without awaiting fetch
\* (sendBeacon returned true) is a microtask: it runs when the current task ends.
MicrotaskPending(s) == \E f \in s.inFlight : f.via = "beacon"

runMicrotasks(s) ==
  IF MicrotaskPending(s)
    THEN flushSettled(s, CHOOSE f \in s.inFlight : f.via = "beacon", "ok", TRUE)
    ELSE s

\* "beforeunload", and "visibilitychange" with visibilityState "hidden": the
\* listener and the microtask it leaves behind make up one task.
urgentListener(s, beacon, writeOk) == runMicrotasks(flush(s, TRUE, beacon, writeOk))

\* the "online" listener
onlineListener(s) == retryFailedBatches([s EXCEPT !.isOnline = TRUE])

\* the "offline" listener
offlineListener(s) == [s EXCEPT !.isOnline = FALSE]

\* the retry timeout fires; `handle` tells whether it is the one this.retryTimer names.
retryTimerFired(s, handle) ==
  retryFailedBatches([s EXCEPT !.pendingRetry = @ - 1,
                               !.retryTimer = IF handle THEN FALSE ELSE @])

\* ------------------------------------------------- FingerprintManager
\* `30 * 60 * 1000` milliseconds, and the two keys of sessionStorage.
SESSION_TIMEOUT == 30 * 60 * 1000
SESSION_KEY == "obs_session_id"
SESSION_START_KEY == "obs_session_start"

\* result.visitorId of FingerprintJS, and Math.random().toString(36) of
\* createNewSession.
VisitorIds == {"visitor"}
Randoms == {"r1", "r2"}

\* null, as a string that is missing and as an item that is missing.
NoVisitor == ""
NoString == <<>>

\* timestamp.toString(): the decimal digits, most significant first.
RECURSIVE toString(_)
toString(n) == IF n < 10 THEN <<n>> ELSE Append(toString(n \div 10), n % 10)

\* parseInt(text, 10) of a string of decimal digits.
RECURSIVE parseInt(_)
parseInt(text) ==
  IF Len(text) = 1
    THEN text[1]
    ELSE 10 * parseInt(SubSeq(text, 1, Len(text) - 1)) + text[Len(text)]

\* `${this.visitorId}_${timestamp}_${random}`
SessionIdOf(visitor, timestamp, random) == <<visitor, timestamp, random>>

\* The manager, its storage and the clock as one record, so that a method is a
\* function on it; `ret` is what the method returns.
F ==
  [fpPromise |-> fpPromise, visitorId |-> visitorId, sessionId |-> sessionId,
   sessionStartTime |-> sessionStartTime, sessionStorage |-> sessionStorage,
   now |-> now, lastActivity |-> lastActivity, ret |-> NoString, threw |-> FALSE]

Return(f, value) == [f EXCEPT !.ret = value]

\* createNewSession()
createNewSession(f, random) ==
  LET timestamp == f.now
      id == SessionIdOf(f.visitorId, timestamp, random)
  IN [f EXCEPT !.sessionId = id,
               !.sessionStartTime = timestamp,
               !.lastActivity = timestamp,
               !.sessionStorage = [@ EXCEPT ![SESSION_KEY] = id,
                                            ![SESSION_START_KEY] = toString(timestamp)]]

\* loadOrCreateSession()
loadOrCreateSession(f, random) ==
  LET storedSessionId == f.sessionStorage[SESSION_KEY]
      storedSessionStart == f.sessionStorage[SESSION_START_KEY]
  IN IF /\ storedSessionId # NoString
        /\ storedSessionStart # NoString
        /\ f.now - parseInt(storedSessionStart) < SESSION_TIMEOUT
       THEN [f EXCEPT !.sessionId = storedSessionId,
                      !.sessionStartTime = parseInt(storedSessionStart)]
       ELSE createNewSession(f, random)

\* initialize() up to `await this.fpPromise`
initialize(f) == [f EXCEPT !.fpPromise = TRUE]

\* initialize() after `await fp.get()`: the agent answered with a visitor
\* identifier, or the promise was rejected and initialize() rejects with it.
initializeResumed(f, result, random) ==
  IF result = NoVisitor
    THEN Throw(f)
    ELSE loadOrCreateSession([f EXCEPT !.visitorId = result], random)

\* getVisitorId()
getVisitorId(f) ==
  IF f.visitorId = NoVisitor THEN Throw(f) ELSE Return(f, f.visitorId)

\* getSessionId()
getSessionId(f, random) ==
  IF f.sessionId = NoString THEN Throw(f)
  ELSE LET f1 == IF /\ f.sessionStartTime # 0
                    /\ f.now - f.sessionStartTime > SESSION_TIMEOUT
                   THEN createNewSession(f, random)
                   ELSE f
       IN Return(f1, f1.sessionId)

\* refreshSession(): for a session that is still valid it returns without
\* writing any field (only the history of the model notes the call).
refreshSession(f, random) ==
  IF f.sessionStartTime # 0 /\ f.now - f.sessionStartTime < SESSION_TIMEOUT
    THEN [f EXCEPT !.lastActivity = f.now]
    ELSE createNewSession(f, random)

\* The fields of the manager after a method that ended in f.
SetManager(f, op) ==
  /\ fpPromise' = f.fpPromise
  /\ visitorId' = f.visitorId
  /\ sessionId' = f.sessionId
  /\ sessionStartTime' = f.sessionStartTime
  /\ sessionStorage' = f.sessionStorage
  /\ lastActivity' = f.lastActivity
  /\ lastCall' = [op |-> op, ret |-> f.ret, threw |-> f.threw]

\* A method of the manager ran and ended in f.
SetFingerprint(f, op) ==
  SetManager(f, op) /\ UNCHANGED <<now, batcherVars, observabilityVars>>

NoCall == [op |-> "none", ret |-> NoString, threw |-> FALSE]

\* The page opens at some time after the epoch.
PageOpened == SESSION_TIMEOUT

\* FingerprintManager.getInstance() in a tab that has no session yet.
NewFingerprintManager ==
  /\ fpPromise = FALSE
  /\ visitorId = NoVisitor
  /\ sessionId = NoString
  /\ sessionStartTime = 0
  /\ sessionStorage = [k \in {SESSION_KEY, SESSION_START_KEY} |-> NoString]
  /\ now = PageOpened
  /\ pendingInit = 0
  /\ lastCall = NoCall
  /\ lastActivity = 0

\* ------------------------------------------------------ Observability
\* The instance, its tracker and its batcher as one record, so that a method
\* is a function on it.
O ==
  [batcher |-> S, initialized |-> initialized, eventQueue |-> eventQueue,
   collecting |-> collecting, listening |-> listening, tracked |-> tracked,
   destroyedAt |-> destroyedAt]

\* EventTracker.trackCustomEvent / trackClick / trackFormSubmit / trackError:
\* the event is built and pushed to the tracker's queue.
trackCustomEvent(o) ==
  [o EXCEPT !.eventQueue = Append(@, o.tracked + 1), !.tracked = @ + 1]

\* initialize() after `await this.fingerprintManager.initialize()` has
\* returned: listeners, the page_view event, the collection interval.
observabilityInitialized(o) ==
  LET o1 == [o EXCEPT !.listening = TRUE]
      o2 == trackCustomEvent(o1)
  IN [o2 EXCEPT !.collecting = TRUE, !.initialized = TRUE]

\* track(eventName, eventData), and identify / page which end in it
track(o) == IF ~o.initialized THEN o ELSE trackCustomEvent(o)

\* `events.forEach((event) => { this.config.onEvent(event); this.batcher.addEvent(event) })`
RECURSIVE addEach(_, _, _)
addEach(s, events, writes) ==
  IF Len(events) = 0
    THEN s
    ELSE addEach(addEvent(s, Head(events), Head(writes)), Tail(events), Tail(writes))

\* the callback of the collection interval
collectEvents(o, writes) ==
  LET events == o.eventQueue
  IN [o EXCEPT !.eventQueue = <<>>, !.batcher = addEach(@, events, writes)]

\* Observability.flush()
observabilityFlush(o, writeOk) == [o EXCEPT !.batcher = forceFlush(@, writeOk)]

\* Observability.destroy()
observabilityDestroy(o, beacon, writeOk) ==
  [o EXCEPT !.batcher = destroy(@, beacon, writeOk),
            !.initialized = FALSE,
            !.destroyedAt = o.tracked]

\* A method of the instance ran and ended in o.
SetObservability(o) ==
  /\ SetBatcher(o.batcher)
  /\ initialized' = o.initialized
  /\ eventQueue' = o.eventQueue
  /\ collecting' = o.collecting
  /\ listening' = o.listening
  /\ tracked' = o.tracked
  /\ destroyedAt' = o.destroyedAt

\* `new Observability(config)`: nothing is initialized yet.
NewObservability ==
  /\ initialized = FALSE
  /\ eventQueue = <<>>
  /\ collecting = FALSE
  /\ listening = FALSE
  /\ tracked = 0
  /\ destroyedAt = -1

\* ------------------------------------------------------------- the system
\* The answers of the environment one run of a handler can ask for: the run
\* reaches localStorage.setItem only in storeFailedBatch, and navigator.sendBeacon
\* only in an urgent flush that sends.  An answer nobody asks for is not drawn.
WritesIf(asked) == IF asked THEN WriteResults ELSE {TRUE}
BeaconsIf(asked) == IF asked THEN BeaconResults ELSE {"unavailable"}
Spills(s) == ~s.isOnline /\ Len(s.eventBuffer) > 0
Sends(s) == s.isOnline /\ Len(s.eventBuffer) > 0

\* The batchSize values the constructor takes: it validates nothing, so these
\* are the valid ones, zero (or none given) and a negative one.
ValidBatchSizes == 1..MaxBatchSize
ConfigBatchSizes == {-1, 0} \cup ValidBatchSizes

\* `config.batchSize || 50`: a missing or zero value is replaced.
OrDefault(value, default) == IF value = 0 THEN default ELSE value

\* What an earlier page load left under the storage key: `legacy` batches,
\* oldest first.  Their records and identifiers are those of that earlier load
\* (numbered below zero here).
LegacyBatch(k) == EventBatch(-k, <<-k>>)
LegacyStore(legacy) ==
  IF legacy = 0
    THEN NoItem
    ELSE Item(StringifyAll([j \in 1..legacy |-> LegacyBatch(legacy + 1 - j)]))

\* new EventBatcher(config) on a page whose storage holds `legacy` batches
Loaded(configured, legacy) ==
  /\ batchSize = OrDefault(configured, DefaultBatchSize)
  /\ eventBuffer = <<>>
  /\ flushTimer = TRUE
  /\ isOnline = TRUE
  /\ failedBatches = <<>>
  /\ retryTimer = FALSE
  /\ pendingRetry = 0
  /\ stored = LegacyStore(legacy)
  /\ inFlight = {}
  /\ sweeps = <<>>
  /\ added = 0
  /\ drained = [r \in 1..MaxEvents |-> 0]
  /\ accepted = [r \in 1..MaxEvents |-> 0]
  /\ NewFingerprintManager
  /\ NewObservability

\* new EventBatcher(config) on a page whose storage key is not set
Constructed(configured) == Loaded(configured, 0)

\* A batcher constructed with a valid batchSize.
Init == \E configured \in ValidBatchSizes : Constructed(configured)

\* A batcher constructed with any batchSize the constructor takes.
InitAnyConfig == \E configured \in ConfigBatchSizes : Constructed(configured)

\* Calls of the host application; they may come before a pending microtask runs.
AddEvent ==
  /\ added < MaxEvents
  /\ \E writeOk \in WritesIf(~isOnline) : Set(addEvent(S, added + 1, writeOk))

AddEvents ==
  \E n \in 1..MaxAddEvents :
    /\ added + n <= MaxEvents
    /\ \E writeOk \in WritesIf(~isOnline) :
         Set(addEvents(S, Interval(added + 1, added + n), writeOk))

ForceFlush ==
  \E writeOk \in WritesIf(Spills(S)) : Set(forceFlush(S, writeOk))

Destroy ==
  \E beacon \in BeaconsIf(Sends(S)), writeOk \in WritesIf(Spills(S)) :
    Set(destroy(S, beacon, writeOk))

\* The microtask checkpoint at the end of the host application's task.
Microtask ==
  /\ MicrotaskPending(S)
  /\ Set(runMicrotasks(S))

\* Tasks of the runtime; each starts with no microtask pending.
FlushTimer ==
  /\ ~MicrotaskPending(S)
  /\ flushTimer
  /\ \E writeOk \in WritesIf(Spills(S)) :
       Set(flush(S, FALSE, "unavailable", writeOk))

BeforeUnload ==
  /\ ~MicrotaskPending(S)
  /\ \E beacon \in BeaconsIf(Sends(S)), writeOk \in WritesIf(Spills(S)) :
       Set(urgentListener(S, beacon, writeOk))

VisibilityHidden ==
  /\ ~MicrotaskPending(S)
  /\ \E beacon \in BeaconsIf(Sends(S)), writeOk \in WritesIf(Spills(S)) :
       Set(urgentListener(S, beacon, writeOk))

Online ==
  /\ ~MicrotaskPending(S)
  /\ Len(sweeps) < MaxSweeps
  /\ Set(onlineListener(S))

Offline ==
  /\ ~MicrotaskPending(S)
  /\ Set(offlineListener(S))

RetryTimer ==
  /\ ~MicrotaskPending(S)
  /\ Len(sweeps) < MaxSweeps
  /\ pendingRetry > 0
  /\ \E handle \in BOOLEAN :
       /\ handle => retryTimer
       /\ ~handle => pendingRetry > (IF retryTimer THEN 1 ELSE 0)
       /\ Set(retryTimerFired(S, handle))

FlushResponse ==
  /\ ~MicrotaskPending(S)
  /\ \E f \in inFlight, result \in FetchResults :
       /\ f.via = "fetch"
       /\ \E writeOk \in WritesIf(result # "ok") :
            Set(flushSettled(S, f, result, writeOk))

SweepResponse ==
  /\ ~MicrotaskPending(S)
  /\ \E i \in 1..Len(sweeps), result \in FetchResults :
       Set(sweepSettled(S, i, result))

Next ==
  \/ AddEvent
  \/ AddEvents
  \/ ForceFlush
  \/ Destroy
  \/ Microtask
  \/ FlushTimer
  \/ BeforeUnload
  \/ VisibilityHidden
  \/ Online
  \/ Offline
  \/ RetryTimer
  \/ FlushResponse
  \/ SweepResponse

Spec == Init /\ [][Next]_vars

SpecAnyConfig == InitAnyConfig /\ [][Next]_vars

\* A page whose storage is full, or one batch short of full, of batches that
\* earlier loads have spilled, and that receives no online signal: no sweep
\* empties the store.
LegacyFull == {SpillCap - 1, SpillCap}

InitFullStore ==
  \E configured \in ValidBatchSizes, legacy \in LegacyFull : Loaded(configured, legacy)

NextNoSweep ==
  \/ AddEvent
  \/ AddEvents
  \/ ForceFlush
  \/ Destroy
  \/ Microtask
  \/ FlushTimer
  \/ BeforeUnload
  \/ VisibilityHidden
  \/ Offline
  \/ FlushResponse

SpecFullStore == InitFullStore /\ [][NextNoSweep]_vars

\* A page whose storage holds a backlog of batches from earlier loads while the
\* endpoint is down and the host adds no record: every fetch is rejected or
\* answered non-2xx, so a sweep ends with every batch it attempted failed again.
\* The online signal and the retry timeout come while no sweep is running
\* (overlapping sweeps are part of Spec, on shorter lists).
LegacyBacklog == {1, BackoffCap - 1, BackoffCap, BackoffCap + 1}

InitBacklog ==
  \E configured \in ValidBatchSizes, legacy \in LegacyBacklog : Loaded(configured, legacy)

SweepResponseDown ==
  /\ ~MicrotaskPending(S)
  /\ \E i \in 1..Len(sweeps), result \in FetchResults \ {"ok"} :
       Set(sweepSettled(S, i, result))

OnlineIdle ==
  /\ Len(sweeps) = 0
  /\ Set(onlineListener(S))

RetryTimerIdle ==
  /\ Len(sweeps) = 0
  /\ retryTimer
  /\ Set(retryTimerFired(S, TRUE))

NextBacklog ==
  \/ OnlineIdle
  \/ Offline
  \/ RetryTimerIdle
  \/ SweepResponseDown

SpecBacklog == InitBacklog /\ [][NextBacklog]_vars

\* A page whose storage is full, or one batch short of full, while the endpoint
\* is down: the host adds records between the sweeps, flushes spill while
\* Offline, and the sweeps the online signal and the retry timeout start, one
\* at a time, end with every batch failed again.
AddEventIdle ==
  /\ Len(sweeps) = 0
  /\ AddEvent

NextFullSweep ==
  \/ AddEventIdle
  \/ Offline
  \/ OnlineIdle
  \/ RetryTimerIdle
  \/ SweepResponseDown

SpecFullSweep == InitFullStore /\ [][NextFullSweep]_vars

\* The behaviours in which the transport succeeds: every fetch is answered 2xx.
\* No sweep then leaves a batch behind, so no retry timeout is ever set.
FlushResponseOk ==
  /\ ~MicrotaskPending(S)
  /\ \E f \in inFlight :
       /\ f.via = "fetch"
       /\ Set(flushSettled(S, f, "ok", TRUE))

SweepResponseOk ==
  /\ ~MicrotaskPending(S)
  /\ \E i \in 1..Len(sweeps) : Set(sweepSettled(S, i, "ok"))

NextTransportOk ==
  \/ AddEvent
  \/ AddEvents
  \/ ForceFlush
  \/ Destroy
  \/ Microtask
  \/ FlushTimer
  \/ BeforeUnload
  \/ VisibilityHidden
  \/ Online
  \/ Offline
  \/ FlushResponseOk
  \/ SweepResponseOk

SpecTransportOk == Init /\ [][NextTransportOk]_vars

\* The behaviours in which localStorage never fails: every setItem of
\* storeFailedBatch succeeds.  The transport may fail and signals may arrive
\* as in Spec.
AddEventStored ==
  /\ added < MaxEvents
  /\ Set(addEvent(S, added + 1, TRUE))

AddEventsStored ==
  \E n \in 1..MaxAddEvents :
    /\ added + n <= MaxEvents
    /\ Set(addEvents(S, Interval(added + 1, added + n), TRUE))

ForceFlushStored == Set(forceFlush(S, TRUE))

DestroyStored ==
  \E beacon \in BeaconsIf(Sends(S)) : Set(destroy(S, beacon, TRUE))

FlushTimerStored ==
  /\ ~MicrotaskPending(S)
  /\ flushTimer
  /\ Set(flush(S, FALSE, "unavailable", TRUE))

BeforeUnloadStored ==
  /\ ~MicrotaskPending(S)
  /\ \E beacon \in BeaconsIf(Sends(S)) : Set(urgentListener(S, beacon, TRUE))

VisibilityHiddenStored ==
  /\ ~MicrotaskPending(S)
  /\ \E beacon \in BeaconsIf(Sends(S)) : Set(urgentListener(S, beacon, TRUE))

FlushResponseStored ==
  /\ ~MicrotaskPending(S)
  /\ \E f \in inFlight, result \in FetchResults :
       /\ f.via = "fetch"
       /\ Set(flushSettled(S, f, result, TRUE))

NextStorageOk ==
  \/ AddEventStored
  \/ AddEventsStored
  \/ ForceFlushStored
  \/ DestroyStored
  \/ Microtask
  \/ FlushTimerStored
  \/ BeforeUnloadStored
  \/ VisibilityHiddenStored
  \/ Online
  \/ Offline
  \/ RetryTimer
  \/ FlushResponseStored
  \/ SweepResponse

SpecStorageOk == Init /\ [][NextStorageOk]_vars

\* A page load that finds a few batches of earlier loads under the storage key
\* and adds no record: sweeps, one at a time, with a transport that answers
\* as it likes.
LegacyFew == 1..MaxLegacy

InitReload ==
  \E configured \in ValidBatchSizes, legacy \in LegacyFew : Loaded(configured, legacy)

NextReload ==
  \/ OnlineIdle
  \/ Offline
  \/ RetryTimerIdle
  \/ SweepResponse

SpecReload == InitReload /\ [][NextReload]_vars

\* The same page load, with the signals as the runtime delivers them: the
\* online event and the retry timeout also arrive while a sweep is awaiting a
\* transport result, and the host may call destroy() at any time.  Nothing
\* in retryFailedBatches tells whether another call of it is suspended.
OnlineOverlapping ==
  /\ ~MicrotaskPending(S)
  /\ Len(sweeps) < MaxOverlap
  /\ Set(onlineListener(S))

RetryTimerOverlapping ==
  /\ ~MicrotaskPending(S)
  /\ Len(sweeps) < MaxOverlap
  /\ pendingRetry > 0
  /\ \E handle \in BOOLEAN :
       /\ handle => retryTimer
       /\ ~handle => pendingRetry > (IF retryTimer THEN 1 ELSE 0)
       /\ Set(retryTimerFired(S, handle))

NextOverlap ==
  \/ OnlineOverlapping
  \/ Offline
  \/ RetryTimerOverlapping
  \/ SweepResponse
  \/ Destroy

SpecOverlap == InitReload /\ [][NextOverlap]_vars

\* The FingerprintManager of one tab: its API called in any order, the clock
\* advancing between calls by a little less than, exactly, or a little more
\* than SESSION_TIMEOUT, and the tab loading a new document, which keeps
\* sessionStorage and nothing else.  The batcher is left alone.
Advances == {SESSION_TIMEOUT - 1, SESSION_TIMEOUT, SESSION_TIMEOUT + 1}

Initialize ==
  /\ pendingInit < MaxPendingInit
  /\ pendingInit' = pendingInit + 1
  /\ SetFingerprint(initialize(F), "none")

InitializeResumed ==
  /\ pendingInit > 0
  /\ pendingInit' = pendingInit - 1
  /\ \E result \in VisitorIds \cup {NoVisitor}, random \in Randoms :
       SetFingerprint(initializeResumed(F, result, random), "initialize")

GetVisitorId ==
  /\ UNCHANGED pendingInit
  /\ SetFingerprint(getVisitorId(F), "getVisitorId")

GetSessionId ==
  /\ UNCHANGED pendingInit
  /\ \E random \in Randoms : SetFingerprint(getSessionId(F, random), "getSessionId")

RefreshSession ==
  /\ UNCHANGED pendingInit
  /\ \E random \in Randoms : SetFingerprint(refreshSession(F, random), "refreshSession")

Advance ==
  \E d \in Advances :
    /\ now + d - PageOpened <= MaxHalfHours * (SESSION_TIMEOUT + 1)
    /\ now' = now + d
    /\ lastCall' = NoCall
    /\ UNCHANGED <<fpPromise, visitorId, sessionId, sessionStartTime, sessionStorage,
                   pendingInit, lastActivity, batcherVars, observabilityVars>>

ReloadTab ==
  /\ fpPromise' = FALSE
  /\ visitorId' = NoVisitor
  /\ sessionId' = NoString
  /\ sessionStartTime' = 0
  /\ pendingInit' = 0
  /\ lastCall' = NoCall
  /\ UNCHANGED <<sessionStorage, now, lastActivity, batcherVars, observabilityVars>>

NextSession ==
  \/ Initialize
  \/ InitializeResumed
  \/ GetVisitorId
  \/ GetSessionId
  \/ RefreshSession
  \/ Advance
  \/ ReloadTab

InitSession == Constructed(DefaultBatchSize)

SpecSession == InitSession /\ [][NextSession]_vars

\* One Observability instance: Observability.init(config), then the public API
\* and the page's events in any order.  The instance owns its batcher, so
\* records reach the batcher through the collection interval only; the
\* batcher's own timers, listeners and transport results go on as in Spec.
\* The clock stands still, so that getSessionId() in createBaseEvent changes
\* nothing; the PerformanceMonitor produces no event.
\* Observability.init resolves with the instance when initialize() has ended:
\* the caller holds it from then on, also after destroy().
InstanceHeld == initialized \/ destroyedAt >= 0

ObservabilityInit ==
  /\ ~initialized
  /\ destroyedAt < 0
  /\ pendingInit < MaxPendingInit
  /\ pendingInit' = pendingInit + 1
  /\ SetManager(initialize(F), "none")
  /\ UNCHANGED <<now, batcherVars, observabilityVars>>

ObservabilityInitialized ==
  /\ pendingInit > 0
  /\ tracked < MaxEvents
  /\ pendingInit' = pendingInit - 1
  /\ \E result \in VisitorIds, random \in Randoms :
       SetManager(initializeResumed(F, result, random), "initialize")
  /\ SetObservability(observabilityInitialized(O))
  /\ UNCHANGED now

Track ==
  /\ InstanceHeld
  /\ tracked < MaxEvents
  /\ SetObservability(track(O))
  /\ UNCHANGED fingerprintVars

DomEvent ==
  /\ listening
  /\ tracked < MaxEvents
  /\ SetObservability(trackCustomEvent(O))
  /\ UNCHANGED fingerprintVars

CollectionTick ==
  /\ collecting
  /\ ~MicrotaskPending(S)
  /\ \E writes \in [1..Len(eventQueue) -> WriteResults] :
       SetObservability(collectEvents(O, writes))
  /\ UNCHANGED fingerprintVars

ObservabilityFlush ==
  /\ InstanceHeld
  /\ \E writeOk \in WritesIf(Spills(S)) : SetObservability(observabilityFlush(O, writeOk))
  /\ UNCHANGED fingerprintVars

ObservabilityDestroy ==
  /\ InstanceHeld
  /\ \E beacon \in BeaconsIf(Sends(S)), writeOk \in WritesIf(Spills(S)) :
       SetObservability(observabilityDestroy(O, beacon, writeOk))
  /\ UNCHANGED fingerprintVars

NextObservability ==
  \/ ObservabilityInit
  \/ ObservabilityInitialized
  \/ Track
  \/ DomEvent
  \/ CollectionTick
  \/ ObservabilityFlush
  \/ ObservabilityDestroy
  \/ Microtask
  \/ FlushTimer
  \/ BeforeUnload
  \/ VisibilityHidden
  \/ Offline
  \/ FlushResponse

SpecObservability == Init /\ [][NextObservability]_vars

\* ------------------------------------------------------------ properties
\* Where a record is held.
InBuffer(r) == r \in Range(eventBuffer)
InFlightFlush(r) == \E f \in inFlight : r \in Range(f.events)
InSweep(r) ==
  \E i \in 1..Len(sweeps) :
    \/ r \in Range(sweeps[i].batch.events)
    \/ \E k \in 1..Len(sweeps[i].rest) : r \in Range(sweeps[i].rest[k].events)
InFailedList(r) == \E k \in 1..Len(failedBatches) : r \in Range(failedBatches[k].events)
InStore(r) ==
  /\ stored.present
  /\ \E k \in 1..Len(stored.value) : r \in Range(JSONparse(stored.value[k]).events)

\* The records a serialized batch carries.
EventsOf(payload) == JSONparse(payload).events

\* C1: whatever the interleaving of addEvent/addEvents with the flush triggers,
\* also while earlier flushes still await their transport result, every added
\* record is either still buffered and in no batch, or out of the buffer and in
\* exactly one batch built by flush; no two pending deliveries share a record
\* and no buffered record is part of a pending delivery.
C1_EachRecordInOneFlushBatch ==
  /\ \A r \in 1..added :
       IF InBuffer(r) THEN drained[r] = 0 ELSE drained[r] = 1
  /\ \A i, j \in 1..Len(eventBuffer) : i # j => eventBuffer[i] # eventBuffer[j]
  /\ \A f, g \in inFlight :
       f # g => Range(f.batch.events) \cap Range(g.batch.events) = {}
  /\ \A f \in inFlight : Range(f.batch.events) \cap Range(eventBuffer) = {}

\* A second flush was started while the first still awaits its fetch.
C1_Witness == Cardinality({f \in inFlight : f.via = "fetch"}) >= 2

C3_ThresholdFlush ==
  (isOnline /\ added < MaxEvents) =>
    \A writeOk \in WriteResults :
      LET t == addEvent(S, added + 1, writeOk)
          records == Append(eventBuffer, added + 1)
      IN IF Len(records) = batchSize
           THEN /\ Len(t.trace) = 1
                /\ t.trace[1].call = "fetch"
                /\ EventsOf(t.trace[1].payload) = records
                /\ t.eventBuffer = <<>>
                /\ \E f \in t.inFlight :
                     /\ f.events = records
                     /\ f.via = "fetch"
                     /\ t.inFlight = inFlight \cup {f}
                     /\ f \notin inFlight
           ELSE Len(records) < batchSize =>
                  /\ t.trace = <<>>
                  /\ t.eventBuffer = records
                  /\ t.inFlight = inFlight

\* A batch of batchSize >= 2 records awaits its fetch and the buffer is empty.
C3_Witness ==
  /\ isOnline
  /\ batchSize >= 2
  /\ eventBuffer = <<>>
  /\ \E f \in inFlight : f.via = "fetch" /\ Len(f.events) = batchSize

\* C4: once addEvent or addEvents has returned, Online or Offline, the buffer
\* holds fewer records than the configured batchSize (no other handler adds to
\* the buffer, so this is every state after the first add).
C4_BufferBelowBatchSize ==
  added > 0 => Len(eventBuffer) < batchSize

\* What a flush of a non-empty buffer does while Offline (t is the state after).
SpilledOffline(t, writeOk) ==
  /\ t.trace = <<>>
  /\ t.inFlight = inFlight
  /\ t.sweeps = sweeps
  /\ t.eventBuffer = <<>>
  /\ Len(t.failedBatches) = Len(failedBatches) + 1
  /\ SubSeq(t.failedBatches, 1, Len(failedBatches)) = failedBatches
  /\ t.failedBatches[Len(t.failedBatches)].events = eventBuffer
  /\ IF writeOk
       THEN LET old == IF stored.present THEN stored.value ELSE <<>>
                new == t.stored.value
            IN /\ t.stored.present
               /\ Len(new) = Min(Len(old) + 1, SpillCap)
               /\ EventsOf(new[Len(new)]) = eventBuffer
               /\ \A k \in 1..(Len(new) - 1) : new[k] = old[Len(old) - (Len(new) - 1) + k]
       ELSE t.stored = stored

\* C5: a flush of a non-empty buffer while Offline, urgent or not and whatever
\* triggers it, calls no transport, appends exactly one batch holding exactly
\* the buffered records, in order, to the failed list and (when the write
\* succeeds) to the persisted store, and leaves the buffer empty.
C5_OfflineFlushSpills ==
  (~isOnline /\ Len(eventBuffer) > 0) =>
    \A beacon \in BeaconResults, writeOk \in WriteResults :
      /\ \A useBeacon \in BOOLEAN : SpilledOffline(flush(S, useBeacon, beacon, writeOk), writeOk)
      /\ SpilledOffline(forceFlush(S, writeOk), writeOk)
      /\ SpilledOffline(destroy(S, beacon, writeOk), writeOk)
      /\ SpilledOffline(urgentListener(S, beacon, writeOk), writeOk)

\* Offline, two records were flushed into one spilled batch, persisted too, and
\* nothing was ever handed to a transport.
C5_Witness ==
  /\ ~isOnline
  /\ eventBuffer = <<>>
  /\ inFlight = {} /\ sweeps = <<>>
  /\ \A r \in 1..MaxEvents : accepted[r] = 0
  /\ Len(failedBatches) = 1
  /\ Len(failedBatches[1].events) = 2
  /\ stored.present
  /\ stored.value = <<JSONstringify(failedBatches[1])>>

\* The batches the spill store holds, in memory and persisted.
Persisted == IF stored.present THEN ParseAll(stored.value) ELSE <<>>

\* The pending delivery a flush has just added (t is the state after).
NewInFlight(t) == t.inFlight \ inFlight

NoCallTo(t, name) == \A k \in 1..Len(t.trace) : t.trace[k].call # name

\* C6: with a transport that succeeds, an online signal starts a sweep that
\* takes every spilled batch out of the failed list and out of the persisted
\* store (whose key is removed) and sends them in spill order; each success
\* hands the batch's records to onSuccess and does not put the batch back; and
\* whenever the batcher is Online with no sweep running, no added record is
\* left in the failed list or the persisted store, and every record a flush
\* has drained and that is not awaiting its delivery has been delivered.
C6_OfflineSpillRoundTrip ==
  /\ LET t == onlineListener(S)
         spilled == failedBatches \o Persisted
     IN /\ t.isOnline
        /\ Len(spilled) > 0 =>
             /\ t.failedBatches = <<>>
             /\ t.stored = NoItem
             /\ Len(t.sweeps) = Len(sweeps) + 1
             /\ LET w == t.sweeps[Len(t.sweeps)] IN <<w.batch>> \o w.rest = spilled
             /\ t.trace = <<FetchCall(JSONstringify(spilled[1]))>>
  /\ \A i \in 1..Len(sweeps) :
       LET t == sweepSettled(S, i, "ok")
           batch == sweeps[i].batch
       IN /\ t.trace[1] = OnSuccessCall(batch.events)
          /\ \A r \in Range(batch.events) : t.accepted[r] = accepted[r] + 1
          /\ t.failedBatches = failedBatches
          /\ t.stored = stored
  /\ (isOnline /\ Len(sweeps) = 0) =>
       \A r \in 1..added :
         /\ ~InFailedList(r)
         /\ ~InStore(r)
         /\ (drained[r] = 1 /\ ~InFlightFlush(r)) => accepted[r] >= 1

\* A record spilled while Offline (no fetch fails here) was delivered by the
\* sweep from both places that held its batch; the sweep has ended, the
\* batcher is Online and the failed list and the persisted store are empty.
C6_Witness ==
  /\ isOnline
  /\ Len(sweeps) = 0
  /\ Len(failedBatches) = 0
  /\ ~stored.present
  /\ \E r \in 1..added : accepted[r] = 2

UrgentCalls(t, beacon) ==
  \E f \in NewInFlight(t) :
    LET payload == JSONstringify(f.batch)
    IN /\ EventsOf(payload) = eventBuffer
       /\ t.trace =
            IF beacon = "true" THEN <<SendBeaconCall(payload, TRUE)>>
            ELSE IF beacon = "false"
              THEN <<SendBeaconCall(payload, FALSE), FetchCall(payload)>>
              ELSE <<FetchCall(payload)>>

\* C8: an urgent flush performed while Online calls sendBeacon first and once
\* (when the runtime has it); fetch is called in that same flush exactly when
\* sendBeacon returned false or is missing, with the same serialized batch; a
\* flush that is not urgent, and a sweep, never call sendBeacon.
C8_UrgentFallback ==
  /\ (isOnline /\ Len(eventBuffer) > 0) =>
       \A beacon \in BeaconResults :
         /\ UrgentCalls(flush(S, TRUE, beacon, TRUE), beacon)
         /\ UrgentCalls(destroy(S, beacon, TRUE), beacon)
         /\ \E f \in NewInFlight(flush(S, FALSE, beacon, TRUE)) :
              flush(S, FALSE, beacon, TRUE).trace = <<FetchCall(JSONstringify(f.batch))>>
  /\ \A writeOk \in WriteResults :
       /\ NoCallTo(forceFlush(S, writeOk), "sendBeacon")
       /\ added < MaxEvents =>
            NoCallTo(addEvent(S, added + 1, writeOk), "sendBeacon")
       /\ added + 2 <= MaxEvents =>
            NoCallTo(addEvents(S, <<added + 1, added + 2>>, writeOk), "sendBeacon")
  /\ NoCallTo(onlineListener(S), "sendBeacon")
  /\ \A i \in 1..Len(sweeps), result \in FetchResults :
       NoCallTo(sweepSettled(S, i, result), "sendBeacon")

\* destroy() has flushed while Online and sendBeacon took the batch: its
\* onSuccess is due when the task ends, and no fetch was made for it.
C8_Witness ==
  /\ isOnline
  /\ ~flushTimer
  /\ \E f \in inFlight : f.via = "beacon"

\* C9: a flush with an empty buffer, whatever triggers it, changes nothing: no
\* batch, no transport call, no callback, and buffer, pending deliveries,
\* failed list and persisted store stay as they are (destroy() stops the
\* timers, and its flush changes nothing).
C9_EmptyFlushIsNoOp ==
  Len(eventBuffer) = 0 =>
    \A beacon \in BeaconResults, writeOk \in WriteResults :
      /\ \A useBeacon \in BOOLEAN : flush(S, useBeacon, beacon, writeOk) = S
      /\ beacon = "unavailable" => forceFlush(S, writeOk) = S
      /\ ~MicrotaskPending(S) => urgentListener(S, beacon, writeOk) = S
      /\ destroy(S, beacon, writeOk) =
           [S EXCEPT !.flushTimer = FALSE, !.retryTimer = FALSE,
                     !.pendingRetry = IF retryTimer THEN @ - 1 ELSE @]

\* The buffer is empty while a delivery is pending and a batch is spilled.
C9_Witness ==
  /\ Len(eventBuffer) = 0
  /\ inFlight # {}
  /\ Len(failedBatches) > 0
  /\ stored.present

\* C10: when the periodic timer fires with k records buffered, 0 < k <
\* batchSize, and the batcher Online, exactly one transport call is made, a
\* fetch whose batch holds all k records, and the buffer is left empty; the
\* timer is armed from construction to destroy() whatever the buffer holds.
C10_IntervalFlush ==
  /\ (flushTimer /\ ~MicrotaskPending(S)) => ENABLED FlushTimer
  /\ (isOnline /\ 0 < Len(eventBuffer) /\ Len(eventBuffer) < batchSize) =>
       LET t == flush(S, FALSE, "unavailable", TRUE)
       IN /\ Len(t.trace) = 1
          /\ t.trace[1].call = "fetch"
          /\ EventsOf(t.trace[1].payload) = eventBuffer
          /\ t.eventBuffer = <<>>
          /\ Cardinality(NewInFlight(t)) = 1
          /\ \A f \in NewInFlight(t) : f.events = eventBuffer /\ f.via = "fetch"

\* The timer is armed and a batch of fewer than batchSize records awaits its
\* fetch while the buffer is empty.
C10_Witness ==
  /\ flushTimer
  /\ isOnline
  /\ Len(eventBuffer) = 0
  /\ \E f \in inFlight : f.via = "fetch" /\ Len(f.events) < batchSize

\* C11: destroy() leaves the interval cleared and the buffer empty; it starts
\* one urgent flush with all buffered records (one batch sent while Online, one
\* batch spilled while Offline, nothing if the buffer is empty); once the
\* interval is cleared it stays cleared and the timer flush cannot happen; a
\* second destroy() (no record having been added since) changes nothing and
\* makes no transport call.
C11_DestroyState ==
  /\ ~flushTimer => ~ENABLED FlushTimer
  /\ (~flushTimer /\ Len(eventBuffer) = 0) =>
       \A beacon \in BeaconResults, writeOk \in WriteResults :
         destroy(S, beacon, writeOk) =
           [S EXCEPT !.retryTimer = FALSE,
                     !.pendingRetry = IF retryTimer THEN @ - 1 ELSE @]
  /\ \A beacon \in BeaconResults, writeOk \in WriteResults :
       LET t == destroy(S, beacon, writeOk)
       IN /\ ~t.flushTimer
          /\ t.eventBuffer = <<>>
          /\ IF Len(eventBuffer) = 0
               THEN t.trace = <<>> /\ t.inFlight = inFlight /\ t.failedBatches = failedBatches
               ELSE IF isOnline
                 THEN /\ UrgentCalls(t, beacon)
                      /\ Cardinality(NewInFlight(t)) = 1
                      /\ t.failedBatches = failedBatches
                 ELSE /\ t.trace = <<>>
                      /\ t.inFlight = inFlight
                      /\ Len(t.failedBatches) = Len(failedBatches) + 1
                      /\ t.failedBatches[Len(t.failedBatches)].events = eventBuffer
          /\ \A again \in BeaconResults, writeAgain \in WriteResults :
               /\ destroy(t, again, writeAgain) = t
               /\ destroy(runMicrotasks(t), again, writeAgain) = runMicrotasks(t)

C11_IdempotentDestroy ==
  []C11_DestroyState /\ [][~flushTimer => ~flushTimer']_vars

\* destroy() was called with a record buffered while Online; its batch was
\* handed to fetch, and the interval is cleared.
C11_Witness ==
  /\ ~flushTimer
  /\ isOnline
  /\ eventBuffer = <<>>
  /\ \E f \in inFlight : f.via = "fetch" /\ Len(f.events) < batchSize

\* What one spill does to the persisted store when the write succeeds (t is the
\* state after): the new batch is last, before it come the most recent entries
\* of the old store in their order, and no more than SpillCap entries are kept.
AppendedWithCap(t) ==
  LET old == Persisted
      new == ParseAll(t.stored.value)
      kept == Len(new) - 1
  IN /\ t.stored.present
     /\ Len(new) = Min(Len(old) + 1, SpillCap)
     /\ new[Len(new)] = t.failedBatches[Len(t.failedBatches)]
     /\ \A j \in 1..kept : new[j] = old[Len(old) - kept + j]

\* C12: the persisted store never holds more than 100 batches; a spill appends
\* its batch, and on a store that already holds 100 the oldest entry goes, so
\* that the 100 most recently spilled batches remain in spill order.
C12_SpillCapEviction ==
  /\ stored.present => Len(stored.value) <= SpillCap
  /\ Spills(S) => AppendedWithCap(flush(S, FALSE, "unavailable", TRUE))
  /\ \A f \in inFlight, result \in FetchResults \ {"ok"} :
       AppendedWithCap(flushSettled(S, f, result, TRUE))

\* The store is full and its two newest entries were spilled in this lifetime:
\* at least one of the batches that earlier page loads left has been evicted.
C12_Witness ==
  /\ stored.present
  /\ Len(stored.value) = SpillCap
  /\ JSONparse(stored.value[1]) = LegacyBatch(SpillCap - 2)
  /\ \A j \in {SpillCap - 1, SpillCap} :
       \E r \in 1..added : r \in Range(EventsOf(stored.value[j]))

\* The batches a sweep has still to attempt, in the order it attempts them.
Attempts(w) == <<w.batch>> \o w.rest

\* C13: spills append to the failed list, so the list is in spill order; a
\* sweep (started by the online signal or by the retry timeout) attempts the
\* batches of the failed list in that order, one after the other, before the
\* persisted ones, and the batches that fail are appended to the failed list
\* again in the order in which the sweep attempted them.
C13_FifoRetryOrder ==
  /\ \A f \in inFlight, result \in FetchResults \ {"ok"}, writeOk \in WriteResults :
       LET t == flushSettled(S, f, result, writeOk)
       IN SubSeq(t.failedBatches, 1, Len(failedBatches)) = failedBatches
  /\ \A started \in {onlineListener(S)} \cup
                      (IF isOnline /\ retryTimer THEN {retryTimerFired(S, TRUE)} ELSE {}) :
       Len(failedBatches) > 0 =>
         LET w == started.sweeps[Len(started.sweeps)]
         IN /\ Len(started.sweeps) = Len(sweeps) + 1
            /\ SubSeq(Attempts(w), 1, Len(failedBatches)) = failedBatches
            /\ started.trace = <<FetchCall(JSONstringify(failedBatches[1]))>>
  /\ \A i \in 1..Len(sweeps), result \in FetchResults :
       LET w == sweeps[i]
           t == sweepSettled(S, i, result)
       IN /\ t.failedBatches =
               IF result = "ok" THEN failedBatches ELSE Append(failedBatches, w.batch)
          /\ IF Len(w.rest) > 0
               THEN /\ Attempts(t.sweeps[i]) = w.rest
                    /\ t.trace[Len(t.trace)] = FetchCall(JSONstringify(Head(w.rest)))
               ELSE /\ Len(t.sweeps) = Len(sweeps) - 1
                    /\ NoCallTo(t, "fetch")

\* A sweep is attempting the batch spilled first; the batch spilled second is
\* the next one it will attempt.
C13_Witness ==
  /\ Len(sweeps) = 1
  /\ Len(failedBatches) = 0
  /\ Len(sweeps[1].rest) > 0
  /\ sweeps[1].batch.events = <<1>>
  /\ sweeps[1].rest[1].events = <<2>>

\* The records first..last in the order they were added.
IsRun(events) ==
  Len(events) > 0 /\ events = Interval(events[1], events[1] + Len(events) - 1)

\* Every batch the batcher holds anywhere.
HeldBatches ==
  {f.batch : f \in inFlight}
    \cup Range(failedBatches) \cup Range(Persisted)
    \cup UNION {Range(Attempts(sweeps[i])) : i \in 1..Len(sweeps)}

\* C14: the buffer holds the most recently added records in the order they
\* were added, and every record added before them has been drained into one
\* batch; each flush makes its batch of the whole buffer as it is.  Hence the
\* batches, in the order of their creation, are consecutive runs of the added
\* sequence: a later batch holds only later records, and every batch keeps the
\* insertion order.
C14_FlushKeepsInsertionOrder ==
  /\ eventBuffer = Interval(added - Len(eventBuffer) + 1, added)
  /\ \A r \in 1..added :
       drained[r] = IF r <= added - Len(eventBuffer) THEN 1 ELSE 0
  /\ \A batch \in HeldBatches : IsRun(batch.events)
  /\ Len(eventBuffer) > 0 =>
       \A useBeacon \in BOOLEAN, beacon \in BeaconResults, writeOk \in WriteResults :
         LET t == flush(S, useBeacon, beacon, writeOk)
         IN /\ t.eventBuffer = <<>>
            /\ IF isOnline
                 THEN \A f \in NewInFlight(t) : f.batch.events = eventBuffer
                 ELSE t.failedBatches[Len(t.failedBatches)].events = eventBuffer

\* A batch of two records, in the order they were added, awaits its fetch.
C14_Witness ==
  \E f \in inFlight : f.batch.events = <<1, 2>>

\* The setTimeout calls of a handler run, in order.
Timeouts(t) == SelectSeq(t.trace, LAMBDA c : c.call = "setTimeout")

C17_RetryAfterFailedFlush ==
  (flushTimer /\ isOnline /\ Len(failedBatches) > 0) =>
    (Len(sweeps) > 0 \/ pendingRetry > 0)

\* C18: whenever no sweep is in progress every spilled batch that is still
\* undelivered, one that failed again in a sweep included, is in the persisted
\* store unless the cap evicted it or its write failed.  Stated where no write
\* fails and the cap is never reached: with no sweep in progress every record
\* of the failed list that the server has not accepted is in localStorage.
C18_SpilledBatchesPersisted ==
  Len(sweeps) = 0 =>
    \A r \in 1..added : (InFailedList(r) /\ accepted[r] = 0) => InStore(r)

\* C19: the promise of flush/forceFlush never rejects, and addEvent, addEvents
\* and destroy never throw, whatever the transport does (sendBeacon refuses,
\* fetch rejects, the response is not ok) and whatever localStorage does in the
\* spill (read or write throws, content is not JSON): in every state no run of
\* these operations, before or after the await, ends with an exception under
\* way.  The callbacks onSuccess and onError are taken to return normally.
C19_NothingPropagates ==
  /\ \A writeOk \in WriteResults :
       /\ ~forceFlush(S, writeOk).threw
       /\ added < MaxEvents => ~addEvent(S, added + 1, writeOk).threw
       /\ \A n \in 1..MaxAddEvents :
            added + n <= MaxEvents =>
              ~addEvents(S, Interval(added + 1, added + n), writeOk).threw
       /\ \A beacon \in BeaconResults :
            /\ ~destroy(S, beacon, writeOk).threw
            /\ \A useBeacon \in BOOLEAN : ~flush(S, useBeacon, beacon, writeOk).threw
       /\ \A f \in inFlight, result \in FetchResults :
            ~flushSettled(S, f, result, writeOk).threw
  /\ ~runMicrotasks(S).threw

\* A spill whose storage block threw has returned: one batch is in the failed
\* list, nothing is in localStorage, and no sweep has emptied the store (a
\* sweep that fails leaves a timeout, one that is due starts on "online").
C19_Witness ==
  /\ flushTimer /\ isOnline /\ pendingRetry = 0 /\ Len(sweeps) = 0
  /\ inFlight = {}
  /\ Len(failedBatches) = 1
  /\ ~stored.present
  /\ added = 1 /\ drained[1] = 1 /\ accepted[1] = 0

\* A spill of `events` whose storage block threw ended in t: localStorage is as
\* it was, the batch is the last of the failed list, and a sweep that starts
\* next (on the online signal, or on the retry timeout when one is pending and
\* the batcher is Online) has it among the batches it attempts.
HeldForNextSweep(t, events) ==
  LET batch == EventBatch(generateEventId(2, events), events)
      t0 == [t EXCEPT !.trace = <<>>]
  IN /\ t.stored = stored
     /\ t.failedBatches = Append(failedBatches, batch)
     /\ \A started \in {onlineListener(t0)} \cup
                         (IF t0.isOnline /\ t0.retryTimer
                            THEN {retryTimerFired(t0, TRUE)} ELSE {}) :
          /\ Len(started.sweeps) = Len(t.sweeps) + 1
          /\ started.failedBatches = <<>>
          /\ Attempts(started.sweeps[Len(started.sweeps)])[Len(t.failedBatches)] = batch

\* C20: when the write of a spilled batch to localStorage fails (in the spill
\* of an offline flush, or of a flush whose send failed), the batch is still
\* held in the in-memory failed list and the next sweep of this batcher
\* attempts it; only the persisted copy is missing.
C20_FailedWriteKeepsBatchInMemory ==
  /\ Spills(S) =>
       \A useBeacon \in BOOLEAN, beacon \in BeaconResults :
         HeldForNextSweep(flush(S, useBeacon, beacon, FALSE), eventBuffer)
  /\ \A f \in inFlight, result \in FetchResults \ {"ok"} :
       HeldForNextSweep(flushSettled(S, f, result, FALSE), f.events)

\* A sweep is attempting the only copy of an undelivered batch: the batch was
\* in the failed list and not in localStorage, so its write had failed.
C20_Witness ==
  /\ Len(sweeps) = 1
  /\ sweeps[1].rest = <<>>
  /\ sweeps[1].batch.events = <<1>>
  /\ failedBatches = <<>>
  /\ ~stored.present
  /\ added = 1 /\ accepted[1] = 0

\* C21: a construction with a zero or negative batch size fails, so no batcher
\* with a non-positive batch size ever accepts an event: whenever a record has
\* been added, batchSize is positive.
C21_InvalidConfigRejected == batchSize <= 0 => added = 0

\* C22: at most one flush of the batcher has a delivery in flight: a trigger
\* that fires while a flush awaits its transport result starts no second
\* delivery, so never do two flushes await a fetch at the same time.
C22_OneFlushInFlight == Cardinality({f \in inFlight : f.via = "fetch"}) <= 1

\* The calls to fetch a handler has made.
Fetches(t) == SelectSeq(t.trace, LAMBDA c : c.call = "fetch")

\* The batches of q are batches of earlier page loads, each at most once and
\* in the order in which the store held them (LegacyStore holds them by rising
\* batch_id).
InStoredOrder(q) ==
  /\ \A k \in 1..Len(q) : \E n \in LegacyFew : q[k] = LegacyBatch(n)
  /\ \A j, k \in 1..Len(q) : j < k => q[j].batch_id < q[k].batch_id

\* C23: a sweep that starts while Online with batches in localStorage and an
\* empty failed list takes all of them, in stored order, and removes the key at
\* once; it attempts them one after the other, each exactly once: a step of
\* the sweep sends the next batch and nothing else, the key stays removed while
\* batches of the store are held, and the batches still to be attempted or
\* failed again are each held once, in stored order.
C23_PersistedBatchesSweptOnce ==
  /\ (stored.present /\ failedBatches = <<>>) =>
       \A started \in {onlineListener(S)} \cup
                        (IF isOnline /\ retryTimer THEN {retryTimerFired(S, TRUE)} ELSE {}) :
         LET w == started.sweeps[Len(started.sweeps)]
         IN /\ Len(started.sweeps) = Len(sweeps) + 1
            /\ Attempts(w) = ParseAll(stored.value)
            /\ started.stored = NoItem
            /\ started.failedBatches = <<>>
            /\ Fetches(started) = <<FetchCall(stored.value[1])>>
  /\ \A i \in 1..Len(sweeps), result \in FetchResults :
       LET w == sweeps[i]
           t == sweepSettled(S, i, result)
       IN /\ t.stored = NoItem
          /\ IF Len(w.rest) > 0
               THEN /\ Attempts(t.sweeps[i]) = w.rest
                    /\ Fetches(t) = <<FetchCall(JSONstringify(Head(w.rest)))>>
               ELSE Fetches(t) = <<>>
  /\ IF Len(sweeps) = 0
       THEN InStoredOrder(failedBatches)
       ELSE InStoredOrder(failedBatches \o Attempts(sweeps[1]))
  /\ (Len(sweeps) > 0 \/ Len(failedBatches) > 0) => ~stored.present

\* The first sweep of the page is attempting the newest batch of the store
\* after the one before it has failed; nothing is stored.
C23_Witness ==
  /\ Len(sweeps) = 1
  /\ sweeps[1].batch = LegacyBatch(1)
  /\ sweeps[1].rest = <<>>
  /\ failedBatches = <<LegacyBatch(2)>>
  /\ ~retryTimer /\ pendingRetry = 0
  /\ ~stored.present

\* C24: batchSize is the largest number of records in a batch: no batch sent or
\* spilled, whether it was built after addEvent or after addEvents, holds more
\* than batchSize records.
C24_BatchSizeIsMaximum == \A batch \in HeldBatches : Len(batch.events) <= batchSize

\* C25: a session is kept by initialize() and by getSessionId() exactly while
\* less than 30 minutes have passed since it was created, and once 30 minutes
\* have passed the next initialize(), getSessionId() or refreshSession() yields
\* a new session.  Hence when one of these calls has just ended normally, the
\* session the manager holds was created less than 30 minutes ago.
C25_SessionYoungerThanTimeout ==
  (lastCall.op \in {"initialize", "getSessionId", "refreshSession"} /\ ~lastCall.threw) =>
    now - sessionStartTime < SESSION_TIMEOUT

\* C26: expiry is measured from the last activity: while refreshSession() is
\* called at gaps shorter than 30 minutes, getSessionId() keeps returning the
\* same identifier.  Hence in every state in which the session was created or
\* last refreshed less than 30 minutes ago, getSessionId() of an initialized
\* manager returns the identifier the manager holds.
C26_ActivityExtendsSession ==
  (visitorId # NoVisitor /\ sessionId # NoString /\ now - lastActivity < SESSION_TIMEOUT) =>
    \A random \in Randoms : getSessionId(F, random).ret = sessionId

\* C27: getVisitorId() and getSessionId() called before initialize() has
\* completed fail with an error (and change nothing): when one of them has
\* just ended on a manager that has no visitor identifier yet, it has thrown.
C27_NotInitializedThrows ==
  (visitorId = NoVisitor /\ lastCall.op \in {"getVisitorId", "getSessionId"}) =>
    lastCall.threw

\* C28: Observability.flush() on an initialized instance includes every event
\* tracked before the call, those still waiting in the tracker's queue too, in
\* the delivery attempt it makes: when flush() has run, every event produced so
\* far has been taken into a batch.
C28_FlushIncludesTrackedEvents ==
  initialized =>
    \A writeOk \in WriteResults :
      LET t == observabilityFlush(O, writeOk)
      IN \A r \in 1..tracked : t.batcher.drained[r] >= 1

\* C29: after Observability.destroy() no event produced afterwards, by a DOM
\* listener, the collection interval or a track call, is handed to the batcher:
\* once destroy() has been called the batcher has received no more events than
\* the tracker had produced at that moment.
C29_NoEventAfterDestroy == destroyedAt >= 0 => added <= destroyedAt

\* C30: the spill entry made when the delivery of a flush fails carries the
\* batch identifier of the envelope that was sent in the failed attempt: when
\* the fetch of a flush fails, the batch appended to the failed list has the
\* batch_id of the batch in flight.
C30_SpillKeepsBatchIdentity ==
  \A f \in inFlight, result \in FetchResults \ {"ok"}, writeOk \in WriteResults :
    f.via = "fetch" =>
      LET t == flushSettled(S, f, result, writeOk)
      IN t.failedBatches[Len(t.failedBatches)].batch_id = f.batch.batch_id

\* C31: with a succeeding transport the records of a batch that was spilled in
\* this batcher's lifetime reach the endpoint once: a sweep attempts the batch
\* once, although the failed list and the persisted store both hold it, so no
\* record is accepted by the transport more than once.
C31_SpilledBatchSentOnce == \A r \in 1..added : accepted[r] <= 1

\* C32: a batch that a failing flush spills while a sweep is in progress is
\* ordered after every batch spilled before it, also after the batch the sweep
\* is still to see fail: when the flush fails and then the batch the sweep is
\* awaiting fails, the failed list holds the sweep's batch before the new one.
C32_SpillOrderKeptUnderInterleaving ==
  \A i \in 1..Len(sweeps), f \in inFlight, writeOk \in WriteResults :
    f.via = "fetch" =>
      LET spilled == flushSettled(S, f, "network", writeOk)
          failed == sweepSettled(spilled, i, "network")
          held == failed.failedBatches
      IN \A k, j \in 1..Len(held) :
           (held[k] = sweeps[i].batch /\ held[j].events = f.events) => k < j

\* C33: after destroy() has returned (the flush interval is cleared, which only
\* destroy() does) no retry timer is pending, no step leaves one pending and
\* no step starts a retry sweep.
C33_NoRetryAfterDestroy ==
  [][~flushTimer =>
       /\ pendingRetry = 0
       /\ pendingRetry' = 0
       /\ Len(sweeps') <= Len(sweeps)]_vars

\* C34: at most one retry sweep of a batcher is in progress at any time: an
\* online signal or a retry timeout that arrives while a sweep is awaiting a
\* transport result starts no second sweep.
C34_OneSweepInProgress == Len(sweeps) <= 1

\* C35: a sweep that starts while Offline, here by the retry timeout firing,
\* makes no transport call, leaves the failed list, the persisted store and the
\* running sweeps and flushes as they are and sets no timeout (the one that
\* fired is gone and none is pending for it); the online signal that follows
\* starts a sweep that attempts all the batches of the failed list and of the
\* store, or nothing when there are none.
C35_OfflineSweepIsNoOp ==
  (~isOnline /\ retryTimer) =>
    LET t == retryTimerFired(S, TRUE)
        u == onlineListener(t)
        held == failedBatches \o Persisted
    IN /\ t.trace = <<>>
       /\ t.failedBatches = failedBatches
       /\ t.stored = stored
       /\ t.sweeps = sweeps
       /\ t.inFlight = inFlight
       /\ ~t.isOnline
       /\ ~t.retryTimer
       /\ t.pendingRetry = pendingRetry - 1
       /\ IF Len(held) = 0
            THEN u.sweeps = sweeps /\ u.trace = <<>>
            ELSE /\ Len(u.sweeps) = Len(sweeps) + 1
                 /\ Attempts(u.sweeps[Len(u.sweeps)]) = held
                 /\ Fetches(u) = <<FetchCall(JSONstringify(held[1]))>>

\* Offline with no sweep running and no timeout pending, while the failed list
\* holds a batch twice, as only a sweep that failed leaves it, and the store
\* holds a batch spilled since: the timeout that sweep set has fired while
\* Offline, and everything is still held.
C35_Witness ==
  /\ flushTimer
  /\ ~isOnline
  /\ Len(sweeps) = 0
  /\ ~retryTimer /\ pendingRetry = 0
  /\ Len(failedBatches) = 3
  /\ failedBatches[1] = failedBatches[2]
  /\ stored.present

\* C36: the spill cap bounds all held spill state: the failed list never holds
\* more than 100 batches, and no sweep has more than 100 batches to attempt.
C36_SpillCapBoundsHeldState ==
  /\ Len(failedBatches) <= SpillCap
  /\ \A i \in 1..Len(sweeps) : Len(Attempts(sweeps[i])) <= SpillCap

\* C37: at most one retry timeout is pending in every reachable state, also
\* when sweeps overlap, and it is the one this.retryTimer names; a sweep that
\* sets a timeout when its last batch has failed cancels the pending one
\* first, so that exactly one is pending afterwards.
C37_OneRetryTimerPending ==
  /\ pendingRetry <= 1
  /\ retryTimer <=> pendingRetry = 1
  /\ \A i \in 1..Len(sweeps), result \in FetchResults :
       LET t == sweepSettled(S, i, result)
       IN Timeouts(t) # <<>> => (t.retryTimer /\ t.pendingRetry = 1)

\* The timeout of a sweep that has ended is pending while another sweep
\* is awaiting the result of its last batch and the failed list holds a batch:
\* whatever the result, this sweep sets a timeout while one is pending.
C37_Witness ==
  /\ retryTimer
  /\ pendingRetry = 1
  /\ Len(sweeps) = 1
  /\ sweeps[1].rest = <<>>
  /\ Len(failedBatches) > 0
  /\ sweeps[1].batch.batch_id < failedBatches[1].batch_id

====
